---- MODULE Spec2Model ----
(***************************************************************************)
(* Model of the core of aegistudio/shaft: the dependency graph, the        *)
(* planner (toposort) that linearises it into an execution plan, and the   *)
(* runner that executes the plan, with re-entrant stack continuations.     *)
(*                                                                         *)
(* Node ids and slot indices are 0-based as in the Go source; TLA+         *)
(* sequences are 1-based, so node id i is g.nodes[i+1].                    *)
(*                                                                         *)
(* An *executionParam (a buffer) is named by the 1-based position in the   *)
(* plan of the step that writes it: the buffer of a collectParamNode or a  *)
(* collectGroupNode by the position of that step, the result buffer of a   *)
(* graphUserNode by the position of that user step.  0 is the nil pointer. *)
(***************************************************************************)
EXTENDS Integers, Sequences, FiniteSets, TLC

\* ------------------------------------------------------------------ bounds
MaxNodes == 3
MaxConsumers == 2
\* Depth of nested toposortGenerateGraphNode calls at which the recursion is
\* taken to be unbounded.  A planning that re-enters no node nests at most
\* MaxNodes + 1 deep (one consumer root over a path of distinct nodes).
MaxDepth == MaxNodes + 3
MaxCalls == 2
MaxFails == 1

\* ------------------------------------------------------------ small helpers
Range(s) == {s[i] : i \in 1..Len(s)}

Lookup(m, k) == IF k \in DOMAIN m THEN m[k] ELSE <<>>

Put(m, k, v) == [x \in (DOMAIN m) \cup {k} |-> IF x = k THEN v ELSE m[x]]

Delete(m, k) == [x \in (DOMAIN m) \ {k} |-> m[x]]

EmptyMap == [x \in {} |-> 0]

\* ------------------------------------------------------------ keys and specs
\* core.Spec: Type, Group, Decorate (Name is always "" here and is left out).
MkSpec(t, grp, dec) == [Type |-> t, Group |-> grp, Decorate |-> dec]

extractGraphKey(spec) == [typ |-> spec.Type, group |-> spec.Group]

\* ------------------------------------------------------------------- graph
newGraph == [nodes |-> <<>>, provide |-> EmptyMap, decorate |-> EmptyMap]

\* Faulty variant (for sensitivity analysis): every output slot is routed to
\* the provide bucket.
RECURSIVE insertOutputs_AllProvide(_, _, _, _)
insertOutputs_AllProvide(gr, id, output, i) ==
  IF i > Len(output) THEN gr
  ELSE LET key == extractGraphKey(output[i])
           slot == [id |-> id, index |-> i - 1]
       IN insertOutputs_AllProvide(
            [gr EXCEPT !.provide =
               Put(@, key, Append(Lookup(gr.provide, key), slot))],
            id, output, i + 1)

RECURSIVE insertOutputs(_, _, _, _)
insertOutputs(gr, id, output, i) ==
  IF i > Len(output) THEN gr
  ELSE LET item == output[i]
           key == extractGraphKey(item)
           slot == [id |-> id, index |-> i - 1]
           gr1 == IF item.Decorate
                  THEN [gr EXCEPT !.decorate =
                          Put(@, key, Append(Lookup(gr.decorate, key), slot))]
                  ELSE [gr EXCEPT !.provide =
                          Put(@, key, Append(Lookup(gr.provide, key), slot))]
       IN insertOutputs(gr1, id, output, i + 1)

insert(gr, node) ==
  LET id == Len(gr.nodes)
  IN insertOutputs([gr EXCEPT !.nodes = Append(@, node)], id, node.output, 1)

\* A nil fmt.Stringer is the empty string.
graphNodeString(node, id) ==
  IF node.format # "" THEN node.format ELSE "#" \o ToString(id)

\* ----------------------------------------------------------------- planner
NoKey == [typ |-> "", group |-> FALSE]

\* The nil error.
Nil == [kind |-> "nil", key |-> NoKey, node |-> ""]

ErrMissing(item) == [kind |-> "missing", key |-> item, node |-> ""]

ErrAmbiguous(item) == [kind |-> "ambiguous", key |-> item, node |-> ""]

ErrCyclic(label, item) == [kind |-> "cyclic", key |-> item, node |-> label]

\* The Go runtime's fatal stack overflow of an unbounded recursion.
ErrOverflow == [kind |-> "overflow", key |-> NoKey, node |-> ""]

\* executionCollect{} is [result |-> 0, index |-> 0]
MkCollect(result, index) == [result |-> result, index |-> index]

EmptyCollect == MkCollect(0, 0)

Ret(tp, val, err) == [tp |-> tp, val |-> val, err |-> err]

\* asked is no field of graphToposort: it is the history of the calls of
\* toposortGenerateSingle, each with its item and the tp.pending it found.
newGraphToposort ==
  [outputs |-> EmptyMap, grouped |-> EmptyMap, decorated |-> EmptyMap,
   decorating |-> EmptyMap, pending |-> {}, result |-> <<>>, asked |-> <<>>]

\* value of a step that is not a graphUserNode
NoValue == [op |-> "", uid |-> -1, format |-> "", glen |-> 0]

\* runAction of a node: the closure an option builder creates; uid names the
\* closure (-1-i for the i-th consumer root, the node id for a graph node).
runAction(op, uid, format, glen) ==
  [op |-> op, uid |-> uid, format |-> format, glen |-> glen]

collectParamNode(items, result) ==
  [kind |-> "collectParam", items |-> items, result |-> result,
   params |-> 0, value |-> NoValue, nout |-> 0]

collectGroupNode(items, result) ==
  [kind |-> "collectGroup", items |-> items, result |-> result,
   params |-> 0, value |-> NoValue, nout |-> 0]

graphUserNode(params, result, value, nout) ==
  [kind |-> "user", items |-> <<>>, result |-> result,
   params |-> params, value |-> value, nout |-> nout]

\* Every call of a planner function is written once, as the argument of the
\* operator that models the code after the call (named ...Return, ...Next).
RECURSIVE toposortGenerateGraphNodeID(_, _, _, _)
RECURSIVE toposortGenerateSingle(_, _, _, _)
RECURSIVE toposortGenerateGrouped(_, _, _, _)
RECURSIVE groupedLoop(_, _, _, _, _, _)
RECURSIVE toposortGenerateBaseCollect(_, _, _, _)
RECURSIVE toposortGenerateCollect(_, _, _, _)
RECURSIVE decorateLoop(_, _, _, _, _, _)
RECURSIVE toposortGenerateGraphNode(_, _, _, _)
RECURSIVE baseCollectLoop(_, _, _, _, _)
RECURSIVE collectLoop(_, _, _, _, _, _)

\* toposortGenerateGraphNodeID after toposortGenerateGraphNode returned r
graphNodeIDReturn(r, id) ==
  LET \* defer delete(tp.pending, id)
      tp2 == [r.tp EXCEPT !.pending = @ \ {id}]
  IN IF r.err # Nil THEN Ret(tp2, 0, r.err)
     ELSE Ret([tp2 EXCEPT !.outputs = Put(@, id, r.val)], r.val, Nil)

\* Faulty variant (for sensitivity analysis): a scheduled node is not reused (tp.outputs is never consulted).
toposortGenerateGraphNodeID_NoReuse(gr, tp, id, d) ==
  graphNodeIDReturn(
    toposortGenerateGraphNode(
      gr, [tp EXCEPT !.pending = @ \cup {id}], gr.nodes[id + 1], d + 1),
    id)

toposortGenerateGraphNodeID(gr, tp, id, d) ==
  IF id \in DOMAIN tp.outputs THEN Ret(tp, tp.outputs[id], Nil)
  ELSE graphNodeIDReturn(
         toposortGenerateGraphNode(
           gr, [tp EXCEPT !.pending = @ \cup {id}], gr.nodes[id + 1], d + 1),
         id)

\* toposortGenerateSingle after toposortGenerateGraphNodeID returned r
singleReturn(r, outputSlot) ==
  IF r.err # Nil THEN Ret(r.tp, EmptyCollect, r.err)
  ELSE Ret(r.tp, MkCollect(r.val, outputSlot.index), Nil)

\* Faulty variant (for sensitivity analysis): tp.pending is not consulted.
toposortGenerateSingle_NoPendingCheck(gr, tp0, item, d) ==
  LET outputSlots == Lookup(gr.provide, item)
      tp == [tp0 EXCEPT !.asked =
               Append(@, [key |-> item, pending |-> tp0.pending])]
  IN IF Len(outputSlots) = 0 THEN Ret(tp, EmptyCollect, ErrMissing(item))
     ELSE IF Len(outputSlots) # 1
     THEN Ret(tp, EmptyCollect, ErrAmbiguous(item))
     ELSE singleReturn(
            toposortGenerateGraphNodeID(gr, tp, outputSlots[1].id, d),
            outputSlots[1])

\* Faulty variant (for sensitivity analysis): of several providers the first
\* one is taken.
toposortGenerateSingle_FirstWins(gr, tp0, item, d) ==
  LET outputSlots == Lookup(gr.provide, item)
      tp == [tp0 EXCEPT !.asked =
               Append(@, [key |-> item, pending |-> tp0.pending])]
  IN IF Len(outputSlots) = 0 THEN Ret(tp, EmptyCollect, ErrMissing(item))
     ELSE LET outputSlot == outputSlots[1]
              id == outputSlot.id
          IN IF id \in tp.pending
             THEN Ret(tp, EmptyCollect,
                      ErrCyclic(graphNodeString(gr.nodes[id + 1], id), item))
             ELSE singleReturn(
                    toposortGenerateGraphNodeID(gr, tp, id, d), outputSlot)

toposortGenerateSingle(gr, tp0, item, d) ==
  LET outputSlots == Lookup(gr.provide, item)
      tp == [tp0 EXCEPT !.asked =
               Append(@, [key |-> item, pending |-> tp0.pending])]
  IN IF Len(outputSlots) = 0 THEN Ret(tp, EmptyCollect, ErrMissing(item))
     ELSE IF Len(outputSlots) # 1
     THEN Ret(tp, EmptyCollect, ErrAmbiguous(item))
     ELSE LET outputSlot == outputSlots[1]
              id == outputSlot.id
          IN IF id \in tp.pending
             THEN Ret(tp, EmptyCollect,
                      ErrCyclic(graphNodeString(gr.nodes[id + 1], id), item))
             ELSE singleReturn(
                    toposortGenerateGraphNodeID(gr, tp, id, d), outputSlot)

\* Faulty variant (for sensitivity analysis): node.items is built in reverse (each collect is put in front).
groupedLoopNext_Prepend(gr, r, outputSlots, i, items, d) ==
  IF r.err # Nil THEN Ret(r.tp, <<>>, r.err)
  ELSE groupedLoop(gr, r.tp, outputSlots, i + 1,
                   <<MkCollect(r.val, outputSlots[i].index)>> \o items, d)

\* one turn of the loop of toposortGenerateGrouped, after
\* toposortGenerateGraphNodeID returned r
groupedLoopNext(gr, r, outputSlots, i, items, d) ==
  IF r.err # Nil THEN Ret(r.tp, <<>>, r.err)
  ELSE groupedLoop(gr, r.tp, outputSlots, i + 1,
                   Append(items, MkCollect(r.val, outputSlots[i].index)), d)

\* for _, outputSlot := range outputSlots { ... } of toposortGenerateGrouped
groupedLoop(gr, tp, outputSlots, i, items, d) ==
  IF i > Len(outputSlots) THEN Ret(tp, items, Nil)
  ELSE groupedLoopNext(
         gr, toposortGenerateGraphNodeID(gr, tp, outputSlots[i].id, d),
         outputSlots, i, items, d)

\* toposortGenerateGrouped after its loop ended with r (r.val: node.items)
groupedReturn(r, group) ==
  IF r.err # Nil THEN Ret(r.tp, EmptyCollect, r.err)
  ELSE LET result == Len(r.tp.result) + 1
           node == collectGroupNode(r.val, result)
           tp1 == [r.tp EXCEPT !.result = Append(@, node),
                               !.grouped = Put(@, group, result)]
       IN Ret(tp1, MkCollect(result, 0), Nil)

\* Faulty variant (for sensitivity analysis): tp.grouped is not consulted, a
\* collect-group step is built at every request.
toposortGenerateGrouped_NoCache(gr, tp, group, d) ==
  groupedReturn(
    groupedLoop(gr, tp, Lookup(gr.provide, group), 1, <<>>, d), group)

\* Faulty variant (for sensitivity analysis): a group key without provider
\* is a missing dependency.
toposortGenerateGrouped_MissingOnEmpty(gr, tp, group, d) ==
  IF group \in DOMAIN tp.grouped
  THEN Ret(tp, MkCollect(tp.grouped[group], 0), Nil)
  ELSE IF Lookup(gr.provide, group) = <<>>
  THEN Ret(tp, EmptyCollect, ErrMissing(group))
  ELSE groupedReturn(
         groupedLoop(gr, tp, Lookup(gr.provide, group), 1, <<>>, d), group)

toposortGenerateGrouped(gr, tp, group, d) ==
  IF group \in DOMAIN tp.grouped
  THEN Ret(tp, MkCollect(tp.grouped[group], 0), Nil)
  ELSE groupedReturn(
         groupedLoop(gr, tp, Lookup(gr.provide, group), 1, <<>>, d), group)

\* Faulty variant (for sensitivity analysis): tp.decorating[key] is never
\* initialised with the base collect.
baseCollectReturn_NoSeed(gr, r, key) ==
  IF r.err # Nil THEN Ret(r.tp, EmptyCollect, r.err)
  ELSE Ret(r.tp, r.val, Nil)

\* toposortGenerateBaseCollect once baseCollect, err are r
baseCollectReturn(gr, r, key) ==
  IF r.err # Nil THEN Ret(r.tp, EmptyCollect, r.err)
  ELSE IF Len(Lookup(gr.decorate, key)) = 0 THEN Ret(r.tp, r.val, Nil)
  ELSE IF key \in DOMAIN r.tp.decorated THEN Ret(r.tp, r.val, Nil)
  ELSE IF key \notin DOMAIN r.tp.decorating
  THEN Ret([r.tp EXCEPT !.decorating = Put(@, key, r.val)], r.val, Nil)
  ELSE Ret(r.tp, r.val, Nil)

toposortGenerateBaseCollect(gr, tp, key, d) ==
  IF key.group
  THEN baseCollectReturn(gr, toposortGenerateGrouped(gr, tp, key, d), key)
  ELSE baseCollectReturn(gr, toposortGenerateSingle(gr, tp, key, d), key)

\* Faulty variant (for sensitivity analysis): tp.decorating[key] is overwritten by the first decorator only.
decorateLoopNext_KeepFirst(gr, r, key, outputSlots, i, d) ==
  IF r.err # Nil THEN Ret(r.tp, EmptyCollect, r.err)
  ELSE decorateLoop(
         gr,
         IF i = 1
         THEN [r.tp EXCEPT !.decorating =
                 Put(@, key, MkCollect(r.val, outputSlots[i].index))]
         ELSE r.tp,
         key, outputSlots, i + 1, d)

\* one turn of the loop of toposortGenerateCollect, after
\* toposortGenerateGraphNodeID returned r
decorateLoopNext(gr, r, key, outputSlots, i, d) ==
  IF r.err # Nil THEN Ret(r.tp, EmptyCollect, r.err)
  ELSE decorateLoop(
         gr,
         [r.tp EXCEPT !.decorating =
            Put(@, key, MkCollect(r.val, outputSlots[i].index))],
         key, outputSlots, i + 1, d)

\* for _, outputSlot := range outputSlots { ... } of toposortGenerateCollect
decorateLoop(gr, tp, key, outputSlots, i, d) ==
  IF i > Len(outputSlots) THEN Ret(tp, EmptyCollect, Nil)
  ELSE decorateLoopNext(
         gr, toposortGenerateGraphNodeID(gr, tp, outputSlots[i].id, d),
         key, outputSlots, i, d)

\* panic("invalid uninitialized decorate")
ErrPanicDecorate == [kind |-> "panic", key |-> NoKey, node |-> ""]

\* toposortGenerateCollect after its loop over the decorators ended with r
collectDecorated(r, key) ==
  IF r.err # Nil THEN Ret(r.tp, EmptyCollect, r.err)
  ELSE LET result == r.tp.decorating[key]
       IN Ret([r.tp EXCEPT !.decorated = Put(@, key, result),
                           !.decorating = Delete(@, key)],
              result, Nil)

\* toposortGenerateCollect after toposortGenerateBaseCollect returned b.  A
\* fatal stack overflow or panic inside the call is no return value and
\* unwinds through every caller.
collectReturn(gr, b, spec, key, d) ==
  IF b.err # Nil
  THEN IF b.err.kind \in {"overflow", "panic"}
       THEN Ret(b.tp, EmptyCollect, b.err)
       ELSE \* return executionCollect{}, nil
            Ret(b.tp, EmptyCollect, Nil)
  ELSE IF spec.Decorate
  THEN IF key \notin DOMAIN b.tp.decorating
       THEN Ret(b.tp, EmptyCollect, ErrPanicDecorate)
       ELSE Ret(b.tp, b.tp.decorating[key], Nil)
  ELSE IF Len(Lookup(gr.decorate, key)) = 0 THEN Ret(b.tp, b.val, Nil)
  ELSE IF key \in DOMAIN b.tp.decorated
  THEN Ret(b.tp, b.tp.decorated[key], Nil)
  ELSE collectDecorated(
         decorateLoop(gr, b.tp, key, Lookup(gr.decorate, key), 1, d), key)

toposortGenerateCollect(gr, tp, spec, d) ==
  collectReturn(
    gr, toposortGenerateBaseCollect(gr, tp, extractGraphKey(spec), d),
    spec, extractGraphKey(spec), d)

\* Faulty variant (for sensitivity analysis): the first loop goes on after an
\* error of toposortGenerateBaseCollect.
baseCollectLoopNext_GoOn(gr, r, input, i, d) ==
  IF r.err.kind \in {"overflow", "panic"} THEN Ret(r.tp, 0, r.err)
  ELSE baseCollectLoop(gr, r.tp, input, i + 1, d)

\* one turn of the first loop of toposortGenerateGraphNode
baseCollectLoopNext(gr, r, input, i, d) ==
  IF r.err # Nil THEN Ret(r.tp, 0, r.err)
  ELSE baseCollectLoop(gr, r.tp, input, i + 1, d)

\* first loop of toposortGenerateGraphNode
baseCollectLoop(gr, tp, input, i, d) ==
  IF i > Len(input) THEN Ret(tp, 0, Nil)
  ELSE baseCollectLoopNext(
         gr, toposortGenerateBaseCollect(gr, tp, extractGraphKey(input[i]), d),
         input, i, d)

\* Faulty variant (for sensitivity analysis): each collect is put in front of
\* collectNode.items.
collectLoopNext_Prepend(gr, r, input, i, items, d) ==
  IF r.err # Nil THEN Ret(r.tp, <<>>, r.err)
  ELSE collectLoop(gr, r.tp, input, i + 1, <<r.val>> \o items, d)

\* one turn of the second loop of toposortGenerateGraphNode
collectLoopNext(gr, r, input, i, items, d) ==
  IF r.err # Nil THEN Ret(r.tp, <<>>, r.err)
  ELSE collectLoop(gr, r.tp, input, i + 1, Append(items, r.val), d)

\* second loop of toposortGenerateGraphNode
collectLoop(gr, tp, input, i, items, d) ==
  IF i > Len(input) THEN Ret(tp, items, Nil)
  ELSE collectLoopNext(
         gr, toposortGenerateCollect(gr, tp, input[i], d), input, i, items, d)

\* toposortGenerateGraphNode after its second loop ended with r2
\* (r2.val: collectNode.items)
graphNodeEmit(r2, current) ==
  IF r2.err # Nil THEN Ret(r2.tp, 0, r2.err)
  ELSE LET q == Len(r2.tp.result) + 1
           collectNode == collectParamNode(r2.val, q)
           userNode == graphUserNode(
             q, q + 1, current.value, Len(current.output))
       IN Ret([r2.tp EXCEPT !.result = @ \o <<collectNode, userNode>>],
              q + 1, Nil)

\* Faulty variant (for sensitivity analysis): the second loop is entered
\* also when the first loop ended with an error.
graphNodeSecondPass_IgnoreBaseError(gr, r1, current, d) ==
  IF r1.err.kind \in {"overflow", "panic"} THEN Ret(r1.tp, 0, r1.err)
  ELSE graphNodeEmit(
         collectLoop(gr, r1.tp, current.input, 1, <<>>, d), current)

\* toposortGenerateGraphNode after its first loop ended with r1
graphNodeSecondPass(gr, r1, current, d) ==
  IF r1.err # Nil THEN Ret(r1.tp, 0, r1.err)
  ELSE graphNodeEmit(
         collectLoop(gr, r1.tp, current.input, 1, <<>>, d), current)

\* Faulty variant (for sensitivity analysis): the first loop over the inputs (the base-collect pass) is left out.
toposortGenerateGraphNode_NoBasePass(gr, tp, current, d) ==
  IF d > MaxDepth THEN Ret(tp, 0, ErrOverflow)
  ELSE graphNodeEmit(
         collectLoop(gr, tp, current.input, 1, <<>>, d), current)

toposortGenerateGraphNode(gr, tp, current, d) ==
  IF d > MaxDepth THEN Ret(tp, 0, ErrOverflow)
  ELSE graphNodeSecondPass(
         gr, baseCollectLoop(gr, tp, current.input, 1, d), current, d)

RECURSIVE toposortLoop(_, _, _, _)

\* one turn of the loop of toposort
toposortLoopNext(gr, r, invokes, i) ==
  IF r.err # Nil THEN Ret(r.tp, <<>>, r.err)
  ELSE toposortLoop(gr, r.tp, invokes, i + 1)

\* Faulty variant (for sensitivity analysis): the consumer roots are planned
\* from the last one to the first.
toposortLoop_LastFirst(gr, tp, invokes, i) ==
  IF i > Len(invokes) THEN Ret(tp, tp.result, Nil)
  ELSE toposortLoopNext(
         gr,
         toposortGenerateGraphNode(gr, tp, invokes[Len(invokes) + 1 - i], 1),
         invokes, i)

toposortLoop(gr, tp, invokes, i) ==
  IF i > Len(invokes) THEN Ret(tp, tp.result, Nil)
  ELSE toposortLoopNext(
         gr, toposortGenerateGraphNode(gr, tp, invokes[i], 1), invokes, i)

\* Faulty variant (for sensitivity analysis): every node of the graph is planned, as if it were a consumer root.
toposort_Eager(gr, invokes) ==
  toposortLoop(gr, newGraphToposort, invokes \o gr.nodes, 1)

\* returns [val |-> the plan, err |-> the error or Nil, tp |-> final state]
toposort(gr, invokes) == toposortLoop(gr, newGraphToposort, invokes, 1)

\* ------------------------------------------------------------ host options
\* The ports the host declares.  A, B and C are singleton types, I is the
\* element type of a group.
sA == MkSpec("A", FALSE, FALSE)
dA == MkSpec("A", FALSE, TRUE)
sB == MkSpec("B", FALSE, FALSE)
sC == MkSpec("C", FALSE, FALSE)
gI == MkSpec("I", TRUE, FALSE)
dI == MkSpec("I", TRUE, TRUE)

\* One option the host may pass to Run: the arguments of the option builder.
\* glen is the length of the slice the host function returns for each of its
\* group outputs.
Opt(op, input, output, format, glen) ==
  [op |-> op, input |-> input, output |-> output, format |-> format,
   glen |-> glen]

\* An Option value: the closure one of the option builders returns (a leaf,
\* with the builder's arguments o), or the closure Module(opts...) returns.
Leaf(o) == [mod |-> FALSE, o |-> o, opts |-> <<>>]

Module(opts) ==
  [mod |-> TRUE, o |-> Opt("", <<>>, <<>>, "", 0), opts |-> opts]

\* the closure of Provide, Supply, Stack (option.g.insert) and of Invoke,
\* Populate (append to option.consumers), applied to the option struct st
applyLeaf(o, st) ==
  IF o.op \in {"Provide", "Supply", "Stack"}
  THEN [st EXCEPT !.g =
          insert(@, [input |-> o.input, output |-> o.output,
                     value |-> runAction(o.op, Len(st.g.nodes), o.format,
                                         o.glen),
                     format |-> o.format])]
  ELSE [st EXCEPT !.consumers =
          Append(@, [input |-> o.input, output |-> <<>>,
                     value |-> runAction(o.op, 0 - (Len(st.consumers) + 1),
                                         o.format, o.glen),
                     format |-> o.format])]

RECURSIVE applyOption(_, _)

\* Faulty variant (for sensitivity analysis): Module applies the options it
\* aggregates last to first.
RECURSIVE applyAll_LastFirst(_, _, _)
applyAll_LastFirst(opts, st, i) ==
  IF i > Len(opts) THEN st
  ELSE applyAll_LastFirst(
         opts, applyOption(opts[Len(opts) + 1 - i], st), i + 1)

\* for _, opt := range opts { opt(option) }
RECURSIVE applyAll(_, _, _)
applyAll(opts, st, i) ==
  IF i > Len(opts) THEN st
  ELSE applyAll(opts, applyOption(opts[i], st), i + 1)

\* opt(option)
applyOption(opt, st) ==
  IF opt.mod THEN applyAll(opt.opts, st, 1) ELSE applyLeaf(opt.o, st)

\* Run: g := newGraph(); option := &option{g: g}; Module(opts...)(option)
RunOptions(opts) ==
  applyOption(Module(opts), [g |-> newGraph, consumers |-> <<>>])

\* Hosts without decoration or groups.
ChainMenu ==
  { Opt("Provide", <<>>, <<sA>>, "P()A", 0),
    Opt("Provide", <<sA>>, <<sB>>, "P(A)B", 0),
    Opt("Provide", <<sB>>, <<sA>>, "P(B)A", 0),
    Opt("Provide", <<sA>>, <<sB>>, "", 0),
    Opt("Stack", <<>>, <<sA>>, "S()A", 0),
    Opt("Stack", <<sA>>, <<sB>>, "S(A)B", 0),
    Opt("Supply", <<>>, <<sC>>, "", 0),
    Opt("Invoke", <<sA>>, <<>>, "I(A)", 0),
    Opt("Invoke", <<sB>>, <<>>, "I(B)", 0),
    Opt("Invoke", <<sA, sB>>, <<>>, "I(A,B)", 0),
    Opt("Populate", <<sA>>, <<>>, "", 0) }

\* Hosts with group ports.
GroupMenu ==
  { Opt("Supply", <<>>, <<gI>>, "U()[I]", 1),
    Opt("Provide", <<>>, <<gI, sA>>, "P()[I]A", 2),
    Opt("Stack", <<sA>>, <<gI>>, "S(A)[I]", 1),
    Opt("Provide", <<gI>>, <<sB>>, "P([I])B", 0),
    Opt("Provide", <<gI>>, <<gI>>, "P([I])[I]", 1),
    Opt("Invoke", <<gI>>, <<>>, "I([I])", 0),
    Opt("Invoke", <<sB, gI>>, <<>>, "I(B,[I])", 0),
    Opt("Populate", <<sA>>, <<>>, "", 0) }

\* Hosts with decorators.
DecorateMenu ==
  { Opt("Provide", <<>>, <<sA>>, "P()A", 0),
    Opt("Provide", <<dA>>, <<dA>>, "D(A)A", 0),
    Opt("Provide", <<dA>>, <<dA, sB>>, "D(A)AB", 0),
    Opt("Stack", <<dA>>, <<dA>>, "SD(A)A", 0),
    Opt("Provide", <<sA>>, <<dA>>, "P(A)dA", 0),
    Opt("Provide", <<sA>>, <<sB>>, "P(A)B", 0),
    Opt("Supply", <<>>, <<gI>>, "U()[I]", 1),
    Opt("Provide", <<dI>>, <<dI>>, "D([I])[I]", 1),
    Opt("Provide", <<dI>>, <<dI, sB>>, "D([I])[I]B", 1),
    Opt("Invoke", <<sA>>, <<>>, "I(A)", 0),
    Opt("Invoke", <<sB, sA>>, <<>>, "I(B,A)", 0),
    Opt("Invoke", <<dA>>, <<>>, "I(dA)", 0),
    Opt("Populate", <<gI>>, <<>>, "", 0) }

Menus == <<ChainMenu, GroupMenu, DecorateMenu>>

\* ------------------------------------------------------------------- state
VARIABLES
  family,     \* which host (menu of options) calls Run
  g,          \* option.g: the graph
  consumers,  \* option.consumers
  phase,      \* "options", "run", "done", "planfail", "crash", "panic"
  plan,       \* nodes returned by g.toposort
  planErr,    \* err returned by g.toposort
  pending,    \* rs.pending, as positions in plan
  bufs,       \* contents of every executionParam, by buffer name
  frames,     \* the Go call stack: run loops and stack functions f
  events,     \* history: what was executed, in order
  received,   \* history: the input values each executed user step was given
  runErr,     \* the error Run returned
  nfails      \* number of host failures so far

vars == <<family, g, consumers, phase, plan, planErr, pending, bufs, frames,
          events, received, runErr, nfails>>

\* ------------------------------------------------------------ values
\* reflect.Value: the zero Value, one object, or a slice of objects.  An
\* object is named by the node closure that made it, the output index and its
\* position in the slice.
Zero == [k |-> "zero", e |-> <<>>]

Token(uid, index, n) == [uid |-> uid, index |-> index, n |-> n]

One(uid, index) == [k |-> "one", e |-> <<Token(uid, index, 0)>>]

Slice(e) == [k |-> "slice", e |-> e]

\* errors of the run phase: nil, an error of a host function, or ErrExecute
\* wrappers around one (chain lists their Node fields, outermost first).
RNil == [kind |-> "nil", chain |-> <<>>]

HostErr == [kind |-> "host", chain |-> <<>>]

ErrExecute(name, err) == [kind |-> "execute", chain |-> <<name>> \o err.chain]

\* The graph node (or consumer root) whose option built the closure uid.
NodeOf(uid) == IF uid >= 0 THEN g.nodes[uid + 1] ELSE consumers[0 - uid]

\* ------------------------------------------------------- option builders
\* Provide, Supply and Stack: option.g.insert(graphNode{...})
InsertOption(o) ==
  /\ phase = "options"
  /\ Len(g.nodes) < MaxNodes
  /\ g' = insert(g, [input |-> o.input, output |-> o.output,
                     value |-> runAction(o.op, Len(g.nodes), o.format, o.glen),
                     format |-> o.format])
  /\ UNCHANGED <<family, consumers, phase, plan, planErr, pending, bufs,
                 frames, events, received, runErr, nfails>>

\* Invoke and Populate: option.consumers = append(option.consumers, ...)
ConsumerOption(o) ==
  /\ phase = "options"
  /\ Len(consumers) < MaxConsumers
  /\ consumers' = Append(consumers,
       [input |-> o.input, output |-> <<>>,
        value |-> runAction(o.op, 0 - (Len(consumers) + 1), o.format, o.glen),
        format |-> o.format])
  /\ UNCHANGED <<family, g, phase, plan, planErr, pending, bufs,
                 frames, events, received, runErr, nfails>>

Provide == \E o \in Menus[family] : o.op = "Provide" /\ InsertOption(o)

Supply == \E o \in Menus[family] : o.op = "Supply" /\ InsertOption(o)

Stack == \E o \in Menus[family] : o.op = "Stack" /\ InsertOption(o)

Invoke == \E o \in Menus[family] : o.op = "Invoke" /\ ConsumerOption(o)

Populate == \E o \in Menus[family] : o.op = "Populate" /\ ConsumerOption(o)

\* ---------------------------------------------------------------- Run
\* the buffers as the planner allocates them
InitBuf(step) ==
  IF step.kind = "collectParam" THEN [i \in 1..Len(step.items) |-> Zero]
  ELSE IF step.kind = "collectGroup" THEN <<Slice(<<>>)>>
  ELSE [i \in 1..step.nout |-> Zero]

\* Faulty variant (for sensitivity analysis): the queue is handed to the runner in reverse.
PlanReturn_Reversed(r) ==
  /\ planErr' = r.err
  /\ IF r.err = Nil
     THEN /\ phase' = "run"
          /\ plan' = r.val
          /\ pending' = [i \in 1..Len(r.val) |-> Len(r.val) + 1 - i]
          /\ bufs' = [i \in 1..Len(r.val) |-> InitBuf(r.val[i])]
          /\ frames' = <<[fn |-> "run", step |-> 0, calls |-> 0,
                          ret |-> RNil]>>
     ELSE /\ phase' = IF r.err.kind \in {"overflow", "panic"}
                      THEN "crash" ELSE "planfail"
          /\ UNCHANGED <<plan, pending, bufs, frames>>

\* Faulty variant (for sensitivity analysis): after a planning error the steps
\* scheduled so far are run.
PlanReturn_RunScheduled(r) ==
  /\ planErr' = r.err
  /\ IF r.err.kind \notin {"overflow", "panic"}
     THEN /\ phase' = "run"
          /\ plan' = r.tp.result
          /\ pending' = [i \in 1..Len(r.tp.result) |-> i]
          /\ bufs' = [i \in 1..Len(r.tp.result) |-> InitBuf(r.tp.result[i])]
          /\ frames' = <<[fn |-> "run", step |-> 0, calls |-> 0,
                          ret |-> RNil]>>
     ELSE /\ phase' = "crash"
          /\ UNCHANGED <<plan, pending, bufs, frames>>

\* Run, after g.toposort returned r, up to the call of
\* (&runState{pending: nodes}).run()
PlanReturn(r) ==
  /\ planErr' = r.err
  /\ IF r.err = Nil
     THEN /\ phase' = "run"
          /\ plan' = r.val
          /\ pending' = [i \in 1..Len(r.val) |-> i]
          /\ bufs' = [i \in 1..Len(r.val) |-> InitBuf(r.val[i])]
          /\ frames' = <<[fn |-> "run", step |-> 0, calls |-> 0,
                          ret |-> RNil]>>
     ELSE /\ phase' = IF r.err.kind \in {"overflow", "panic"}
                      THEN "crash" ELSE "planfail"
          /\ UNCHANGED <<plan, pending, bufs, frames>>

\* Run: nodes, err := g.toposort(option.consumers)
Plan ==
  /\ phase = "options"
  /\ PlanReturn(toposort(g, consumers))
  /\ UNCHANGED <<family, g, consumers, events, received, runErr, nfails>>

\* ---------------------------------------------------------------- runner
Top == frames[Len(frames)]

Ev(ev, step, ok) == [ev |-> ev, step |-> step, ok |-> ok]

RunFrame == [fn |-> "run", step |-> 0, calls |-> 0, ret |-> RNil]

\* rs.run() is at the head of its loop with a step to take
AtLoop ==
  /\ phase = "run"
  /\ Top.fn = "run"
  /\ pending # <<>>

\* c.result.params[c.index] of executionCollect.collect; a nil result panics
collect(c) == bufs[c.result][c.index + 1]

\* Faulty variant (for sensitivity analysis): a failure ends Run at once,
\* without returning through the stack functions that are open.
ReturnRun_Abort(fr, err) ==
  LET below == SubSeq(fr, 1, Len(fr) - 1)
  IN IF below = <<>> \/ err # RNil
     THEN [frames |-> <<>>, phase |-> "done", runErr |-> err,
           events |-> <<>>]
     ELSE [frames |-> [below EXCEPT ![Len(below)].ret = err],
           phase |-> "run", runErr |-> runErr,
           events |-> <<Ev("back", below[Len(below)].step, err = RNil)>>]

\* what is left of the call stack, and of Run, when the topmost rs.run() of
\* the call stack fr returns err: to Run, or to the stack function f whose
\* continuation called it
ReturnRun(fr, err) ==
  LET below == SubSeq(fr, 1, Len(fr) - 1)
  IN IF below = <<>>
     THEN [frames |-> <<>>, phase |-> "done", runErr |-> err,
           events |-> <<>>]
     ELSE [frames |-> [below EXCEPT ![Len(below)].ret = err],
           phase |-> "run", runErr |-> runErr,
           events |-> <<Ev("back", below[Len(below)].step, err = RNil)>>]

\* The loops of the collect nodes stop at the first item whose collect() or
\* whose use panics; the items before it have been handled.  This is the
\* number of items handled: Len(items) when no item panics.
RECURSIVE CollectedUntil(_, _, _)
CollectedUntil(items, i, slices) ==
  IF i > Len(items) THEN Len(items)
  ELSE IF items[i].result = 0 THEN i - 1
  ELSE IF slices /\ collect(items[i]).k # "slice" THEN i - 1
  ELSE CollectedUntil(items, i + 1, slices)

\* node.execute() of a collectParamNode; collect() of a nil result panics
\* (nil pointer dereference) after the items before it have been copied
ExecCollectParam ==
  /\ AtLoop
  /\ LET p == Head(pending)
         c == plan[p]
         n == CollectedUntil(c.items, 1, FALSE)
     IN /\ c.kind = "collectParam"
        /\ pending' = Tail(pending)
        /\ events' = Append(events, Ev("exec", p, TRUE))
        /\ bufs' = [bufs EXCEPT ![c.result] =
                      [i \in 1..Len(@) |->
                         IF i <= n THEN collect(c.items[i]) ELSE @[i]]]
        /\ phase' = IF n < Len(c.items) THEN "panic" ELSE phase
  /\ UNCHANGED <<family, g, consumers, plan, planErr, frames, received,
                 runErr, nfails>>

\* Faulty variant (for sensitivity analysis): one element per provider slot is appended, not the whole slice.
RECURSIVE AppendSliceAll_OneEach(_, _, _)
AppendSliceAll_OneEach(acc, items, i) ==
  IF i > Len(items) THEN acc
  ELSE AppendSliceAll_OneEach(
         Slice(acc.e \o SubSeq(collect(items[i]).e, 1, 1)), items, i + 1)

\* reflect.AppendSlice(s, t): t must be a slice
RECURSIVE AppendSliceAll(_, _, _)
AppendSliceAll(acc, items, i) ==
  IF i > Len(items) THEN acc
  ELSE AppendSliceAll(Slice(acc.e \o collect(items[i]).e), items, i + 1)

\* node.execute() of a collectGroupNode; reflect.AppendSlice panics on an
\* item that is no slice (the zero Value), collect() on a nil result, after
\* the items before it have been appended
ExecCollectGroup ==
  /\ AtLoop
  /\ LET p == Head(pending)
         c == plan[p]
         n == CollectedUntil(c.items, 1, TRUE)
     IN /\ c.kind = "collectGroup"
        /\ pending' = Tail(pending)
        /\ events' = Append(events, Ev("exec", p, TRUE))
        /\ bufs' = [bufs EXCEPT ![c.result] =
                      <<AppendSliceAll(@[1], SubSeq(c.items, 1, n), 1)>>]
        /\ phase' = IF n < Len(c.items) THEN "panic" ELSE phase
  /\ UNCHANGED <<family, g, consumers, plan, planErr, frames, received,
                 runErr, nfails>>

\* What the host function of closure uid returns for the inputs in: one
\* object per singleton output; per group output a slice of glen objects,
\* appended to the slice it decorates when the output decorates.
HostOutput(uid, in) ==
  LET node == NodeOf(uid)
      own(j) == [n \in 1..node.value.glen |-> Token(uid, j - 1, n)]
      deco(j) == {i \in 1..Len(node.input) :
                    /\ node.input[i].Decorate
                    /\ i <= Len(in)
                    /\ extractGraphKey(node.input[i])
                         = extractGraphKey(node.output[j])}
      base(j) == IF node.output[j].Decorate /\ deco(j) # {}
                 THEN in[CHOOSE i \in deco(j) : \A k \in deco(j) : i <= k].e
                 ELSE <<>>
  IN [j \in 1..Len(node.output) |->
        IF node.output[j].Group THEN Slice(base(j) \o own(j))
        ELSE One(uid, j - 1)]

\* copy(out, output)
copy(out, output) ==
  [i \in 1..Len(out) |-> IF i <= Len(output) THEN output[i] ELSE out[i]]

\* the user step at the head of the queue is taken and its action is called
TakeUser(p, ops) ==
  /\ AtLoop
  /\ p = Head(pending)
  /\ plan[p].kind = "user"
  /\ plan[p].value.op \in ops
  /\ pending' = Tail(pending)
  /\ received' = Put(received, p, bufs[plan[p].params])

\* action.exec of Provide and Supply, from rs.run()
ExecProvide ==
  \E p \in 1..Len(plan), ok \in BOOLEAN :
    /\ TakeUser(p, {"Provide", "Supply"})
    /\ LET u == plan[p]
       IN IF ok
          THEN /\ bufs' = [bufs EXCEPT ![u.result] =
                             copy(@, HostOutput(u.value.uid, bufs[u.params]))]
               /\ events' = Append(events, Ev("exec", p, TRUE))
               /\ UNCHANGED <<frames, phase, runErr, nfails>>
          ELSE /\ u.value.op = "Provide"
               /\ nfails < MaxFails
               /\ nfails' = nfails + 1
               /\ LET r == ReturnRun(frames, ErrExecute(u.value.format, HostErr))
                  IN /\ frames' = r.frames
                     /\ phase' = r.phase
                     /\ runErr' = r.runErr
                     /\ events' = Append(events, Ev("exec", p, FALSE)) \o r.events
               /\ UNCHANGED bufs
    /\ UNCHANGED <<family, g, consumers, plan, planErr>>

\* action.exec of Invoke and Populate, from rs.run().  Invoke hands in to
\* the host function f, which may fail; Populate does
\* ptrs[i].Elem().Set(in[i]) for each input, returns nil, and panics on an
\* input that is the zero Value.
ExecInvoke ==
  \E p \in 1..Len(plan), ok \in BOOLEAN :
    /\ TakeUser(p, {"Invoke", "Populate"})
    /\ LET u == plan[p]
           in == bufs[u.params]
       IN IF u.value.op = "Populate" /\ \E i \in 1..Len(in) : in[i] = Zero
          THEN /\ ok
               /\ phase' = "panic"
               /\ UNCHANGED <<frames, events, runErr, nfails>>
          ELSE IF ok
          THEN /\ events' = Append(events, Ev("exec", p, TRUE))
               /\ UNCHANGED <<frames, phase, runErr, nfails>>
          ELSE /\ u.value.op = "Invoke"
               /\ nfails < MaxFails
               /\ nfails' = nfails + 1
               /\ LET r == ReturnRun(frames, ErrExecute(u.value.format, HostErr))
                  IN /\ frames' = r.frames
                     /\ phase' = r.phase
                     /\ runErr' = r.runErr
                     /\ events' = Append(events, Ev("exec", p, FALSE)) \o r.events
    /\ UNCHANGED <<family, g, consumers, plan, planErr, bufs>>

\* action.exec of Stack, from rs.run(): f is entered
ExecStack ==
  \E p \in 1..Len(plan) :
    /\ TakeUser(p, {"Stack"})
    /\ frames' = Append(frames, [fn |-> "f", step |-> p, calls |-> 0,
                                 ret |-> RNil])
    /\ events' = Append(events, Ev("exec", p, TRUE))
    /\ UNCHANGED <<family, g, consumers, phase, plan, planErr, bufs, runErr,
                   nfails>>

\* Faulty variant (for sensitivity analysis): the continuation writes the outputs and returns without running
\* the queue.
StackContinue_NoDrain ==
  /\ phase = "run"
  /\ Top.fn = "f"
  /\ Top.calls < MaxCalls
  /\ LET u == plan[Top.step]
     IN bufs' = [bufs EXCEPT ![u.result] =
                   copy(@, HostOutput(u.value.uid, bufs[u.params]))]
  /\ frames' = [frames EXCEPT ![Len(frames)].calls = @ + 1]
  /\ events' = events \o <<Ev("call", Top.step, TRUE),
                           Ev("back", Top.step, TRUE)>>
  /\ UNCHANGED <<family, g, consumers, phase, plan, planErr, pending,
                 received, runErr, nfails>>

\* Faulty variant (for sensitivity analysis): the continuation drops the step
\* at the head of the queue before it runs the queue.
StackContinue_SkipNext ==
  /\ phase = "run"
  /\ Top.fn = "f"
  /\ Top.calls < MaxCalls
  /\ LET u == plan[Top.step]
     IN bufs' = [bufs EXCEPT ![u.result] =
                   copy(@, HostOutput(u.value.uid, bufs[u.params]))]
  /\ frames' = Append([frames EXCEPT ![Len(frames)].calls = @ + 1], RunFrame)
  /\ events' = Append(events, Ev("call", Top.step, TRUE))
  /\ pending' = IF pending = <<>> THEN pending ELSE Tail(pending)
  /\ UNCHANGED <<family, g, consumers, phase, plan, planErr,
                 received, runErr, nfails>>

\* f invokes the continuation: copy(out, output); return rs.run()
StackContinue ==
  /\ phase = "run"
  /\ Top.fn = "f"
  /\ Top.calls < MaxCalls
  /\ LET u == plan[Top.step]
     IN bufs' = [bufs EXCEPT ![u.result] =
                   copy(@, HostOutput(u.value.uid, bufs[u.params]))]
  /\ frames' = Append([frames EXCEPT ![Len(frames)].calls = @ + 1], RunFrame)
  /\ events' = Append(events, Ev("call", Top.step, TRUE))
  /\ UNCHANGED <<family, g, consumers, phase, plan, planErr, pending,
                 received, runErr, nfails>>

\* Faulty variant (for sensitivity analysis): when f returns nil the steps
\* still in the queue are dropped.
StackReturn_DropRest ==
  \E ok \in BOOLEAN :
    /\ phase = "run"
    /\ Top.fn = "f"
    /\ LET below == SubSeq(frames, 1, Len(frames) - 1)
           u == plan[Top.step]
       IN IF ok
          THEN /\ frames' = below
               /\ events' = Append(events, Ev("exit", Top.step, TRUE))
               /\ UNCHANGED <<phase, runErr, nfails>>
               /\ pending' = <<>>
          ELSE /\ \/ Top.ret # RNil /\ UNCHANGED nfails
                  \/ Top.ret = RNil /\ nfails < MaxFails
                       /\ nfails' = nfails + 1
               /\ LET e == IF Top.ret # RNil THEN Top.ret ELSE HostErr
                      r == ReturnRun(below, ErrExecute(u.value.format, e))
                  IN /\ frames' = r.frames
                     /\ phase' = r.phase
                     /\ runErr' = r.runErr
                     /\ events' = Append(events, Ev("exit", Top.step, FALSE))
                                    \o r.events
               /\ UNCHANGED pending
    /\ UNCHANGED <<family, g, consumers, plan, planErr, bufs, received>>

\* f returns, with nil or with an error: the error its continuation returned
\* last, or one of its own
StackReturn ==
  \E ok \in BOOLEAN :
    /\ phase = "run"
    /\ Top.fn = "f"
    /\ LET below == SubSeq(frames, 1, Len(frames) - 1)
           u == plan[Top.step]
       IN IF ok
          THEN /\ frames' = below
               /\ events' = Append(events, Ev("exit", Top.step, TRUE))
               /\ UNCHANGED <<phase, runErr, nfails>>
          ELSE /\ \/ Top.ret # RNil /\ UNCHANGED nfails
                  \/ Top.ret = RNil /\ nfails < MaxFails
                       /\ nfails' = nfails + 1
               /\ LET e == IF Top.ret # RNil THEN Top.ret ELSE HostErr
                      r == ReturnRun(below, ErrExecute(u.value.format, e))
                  IN /\ frames' = r.frames
                     /\ phase' = r.phase
                     /\ runErr' = r.runErr
                     /\ events' = Append(events, Ev("exit", Top.step, FALSE))
                                    \o r.events
    /\ UNCHANGED <<family, g, consumers, plan, planErr, pending, bufs,
                   received>>

\* rs.run() finds the queue empty and returns nil
RunReturn ==
  /\ phase = "run"
  /\ Top.fn = "run"
  /\ pending = <<>>
  /\ LET r == ReturnRun(frames, RNil)
     IN /\ frames' = r.frames
        /\ phase' = r.phase
        /\ runErr' = r.runErr
        /\ events' = events \o r.events
  /\ UNCHANGED <<family, g, consumers, plan, planErr, pending, bufs,
                 received, nfails>>

\* ------------------------------------------------------------ specification
Init ==
  /\ family \in 1..Len(Menus)
  /\ g = newGraph
  /\ consumers = <<>>
  /\ phase = "options"
  /\ plan = <<>>
  /\ planErr = Nil
  /\ pending = <<>>
  /\ bufs = <<>>
  /\ frames = <<>>
  /\ events = <<>>
  /\ received = EmptyMap
  /\ runErr = RNil
  /\ nfails = 0

Next ==
  \/ Provide
  \/ Supply
  \/ Stack
  \/ Invoke
  \/ Populate
  \/ Plan
  \/ ExecCollectParam
  \/ ExecCollectGroup
  \/ ExecProvide
  \/ ExecInvoke
  \/ ExecStack
  \/ StackContinue
  \/ StackReturn
  \/ RunReturn

Spec == Init /\ [][Next]_vars

\* ------------------------------------------------ vocabulary of the claims
\* planning succeeded and the plan is being, or has been, executed
Planned == phase \in {"run", "done", "panic"}

UserSteps == {p \in 1..Len(plan) : plan[p].kind = "user"}

\* the user step of closure uid, when the plan holds exactly one
StepOf(uid) == CHOOSE p \in UserSteps : plan[p].value.uid = uid

StepsOf(uid) == {p \in UserSteps : plan[p].value.uid = uid}

\* positions in events of the executions of step p
ExecsOf(p) ==
  {k \in 1..Len(events) : events[k].ev = "exec" /\ events[k].step = p}

\* the steps executed so far, in order
RECURSIVE ExecutedFrom(_)
ExecutedFrom(k) ==
  IF k > Len(events) THEN <<>>
  ELSE IF events[k].ev = "exec" THEN <<events[k].step>> \o ExecutedFrom(k + 1)
  ELSE ExecutedFrom(k + 1)

Executed == ExecutedFrom(1)

\* a host function or stack function has returned an error before event k
FailedBefore(k) == \E j \in 1..(k - 1) : ~events[j].ok

StackSteps == {p \in UserSteps : plan[p].value.op = "Stack"}

CallsOf(p) ==
  {k \in 1..Len(events) : events[k].ev = "call" /\ events[k].step = p}

\* ---------------------------------------------------------------- claims

\* C1: During one Run no node's action is invoked twice: a plan holds at most
\* one user step per graph node and exactly one per consumer root, and the
\* runner executes each step of the plan at most once, also when a stack
\* continuation is invoked more than once.
C1_NoNodeTwice ==
  Planned =>
    /\ \A id \in 0..(Len(g.nodes) - 1) : Cardinality(StepsOf(id)) <= 1
    /\ \A i \in 1..Len(consumers) : Cardinality(StepsOf(0 - i)) = 1
    /\ \A p \in 1..Len(plan) : Cardinality(ExecsOf(p)) <= 1

\* a run has ended in which a continuation was invoked twice and a node that
\* two nodes depend on was executed
C1_Witness ==
  /\ phase = "done"
  /\ \E p \in StackSteps : Cardinality(CallsOf(p)) = 2
  /\ Len(Executed) = Len(plan)
  /\ Cardinality(UserSteps) >= 4
  /\ Len(g.nodes) = 2

\* C2: without decoration or groups, the action of the provider of a port is
\* invoked before the action of every node that consumes the port.
NoDecorateNoGroup ==
  \A n \in Range(g.nodes) \cup Range(consumers) :
    \A sp \in Range(n.input) \cup Range(n.output) :
      ~sp.Decorate /\ ~sp.Group

C2_TopologicalOrder ==
  (Planned /\ NoDecorateNoGroup) =>
    \A k \in 1..Len(events) :
      (events[k].ev = "exec" /\ plan[events[k].step].kind = "user") =>
        \A sp \in Range(NodeOf(plan[events[k].step].value.uid).input) :
          \E j \in 1..(k - 1) :
            /\ events[j].ev = "exec"
            /\ plan[events[j].step].kind = "user"
            /\ plan[events[j].step].value.uid
                 = g.provide[extractGraphKey(sp)][1].id

\* the singleton chain P1()->A, P2(A)->B, Invoke(B) has run P1, P2, consumer
C2_Witness ==
  /\ phase = "done"
  /\ NoDecorateNoGroup
  /\ Len(g.nodes) = 2
  /\ g.nodes[1].input = <<>> /\ g.nodes[1].output = <<sA>>
  /\ g.nodes[2].input = <<sA>> /\ g.nodes[2].output = <<sB>>
  /\ Len(consumers) = 1 /\ consumers[1].input = <<sB>>
  /\ SelectSeq(Executed, LAMBDA p : plan[p].kind = "user")
       = <<StepOf(0), StepOf(1), StepOf(0 - 1)>>

\* C3: every collect step reads only result buffers of user steps that are
\* earlier in the plan and group buffers of collect-group steps that are
\* earlier in the plan.
C3_ReadsAfterWrites ==
  Planned =>
    \A q \in 1..Len(plan) :
      \A i \in 1..Len(plan[q].items) :
        LET src == plan[q].items[i].result
        IN /\ src >= 1
           /\ src < q
           /\ plan[src].kind \in {"user", "collectGroup"}
           /\ plan[q].kind = "collectGroup" => plan[src].kind = "user"

\* a plan with a collect-group step over two providers whose buffer a
\* collect-param step reads, and a decorator
C3_Witness ==
  /\ Planned
  /\ \E q \in 1..Len(plan), r \in 1..Len(plan) :
       /\ plan[q].kind = "collectGroup"
       /\ Len(plan[q].items) >= 2
       /\ plan[r].kind = "collectParam"
       /\ \E i \in 1..Len(plan[r].items) : plan[r].items[i].result = q

\* C4: when a continuation returns to f without failure, every step planned
\* after the stack's own step has been executed, in plan order, and the
\* queue is empty; so f's teardown comes after all downstream steps.
C4_ContinuationDrains ==
  Planned =>
    \A k \in 1..Len(events) :
      (events[k].ev \in {"back", "exit"} /\ ~FailedBefore(k + 1)
         /\ \E c \in CallsOf(events[k].step) : c < k) =>
        /\ \A q \in (events[k].step + 1)..Len(plan) :
             \E j \in ExecsOf(q) : j < k
        /\ \A i, j \in 1..(k - 1) :
             (i < j /\ events[i].ev = "exec" /\ events[j].ev = "exec")
               => events[i].step < events[j].step

\* a stack function has torn down after its continuation ran three or more
\* downstream steps, a later stack among them
C4_Witness ==
  /\ phase = "done"
  /\ nfails = 0
  /\ \E p \in StackSteps, s \in StackSteps :
       /\ p < s
       /\ CallsOf(p) # {} /\ CallsOf(s) # {}
       /\ Len(plan) >= s + 2
       /\ \E k \in 1..Len(events) :
            events[k].ev = "exit" /\ events[k].step = p

\* the stack steps entered so far, in order of entry
Entered == SelectSeq(Executed, LAMBDA p : p \in StackSteps)

\* the stack steps whose f has returned, in order of return
RECURSIVE ExitedFrom(_)
ExitedFrom(k) ==
  IF k > Len(events) THEN <<>>
  ELSE IF events[k].ev = "exit" THEN <<events[k].step>> \o ExitedFrom(k + 1)
  ELSE ExitedFrom(k + 1)

Exited == ExitedFrom(1)

Reverse(sq) == [i \in 1..Len(sq) |-> sq[Len(sq) + 1 - i]]

\* C5: when every stack of a plan invokes its continuation once, the stack
\* functions return (tear down) in the reverse of the order of entry.
C5_TeardownLIFO ==
  (phase = "done" /\ \A p \in Range(Entered) : Cardinality(CallsOf(p)) = 1)
    => Exited = Reverse(Entered)

\* the objects a node contributes through its group output slot
Contribution(slot) ==
  [n \in 1..g.nodes[slot.id + 1].value.glen |-> Token(slot.id, slot.index, n)]

RECURSIVE Contributions(_, _)
Contributions(slots, i) ==
  IF i > Len(slots) THEN <<>>
  ELSE Contribution(slots[i]) \o Contributions(slots, i + 1)

\* C6: the value a node receives for an undecorated group port lists the
\* contributions of the providers of the key in the order of their insertion.
C6_GroupInsertionOrder ==
  Planned =>
    \A q \in DOMAIN received :
      LET n == NodeOf(plan[q].value.uid)
      IN \A i \in 1..Len(n.input) :
           (n.input[i].Group
              /\ Lookup(g.decorate, extractGraphKey(n.input[i])) = <<>>) =>
             received[q][i] = Slice(Contributions(
               Lookup(g.provide, extractGraphKey(n.input[i])), 1))

\* a consumer root has received a group of two providers of which the one
\* inserted later was executed first
C6_Witness ==
  /\ Planned
  /\ \E q \in DOMAIN received :
       /\ plan[q].value.uid < 0
       /\ NodeOf(plan[q].value.uid).input[1] = gI
       /\ Len(Lookup(g.provide, extractGraphKey(gI))) >= 2
       /\ Len(received[q][1].e) >= 2
       /\ StepOf(g.provide[extractGraphKey(gI)][2].id)
            < StepOf(g.provide[extractGraphKey(gI)][1].id)

\* the collect-group step q has been executed without panic
GroupDone(q) ==
  /\ plan[q].kind = "collectGroup"
  /\ ExecsOf(q) # {}
  /\ ~(phase = "panic" /\ Executed[Len(Executed)] = q)

RECURSIVE SumLen(_, _)
SumLen(items, i) ==
  IF i > Len(items) THEN 0
  ELSE Len(collect(items[i]).e) + SumLen(items, i + 1)

\* C7 as claimed: a collect-group step appends one element per provider slot,
\* so the aggregated sequence has as many elements as the key has slots.
C7_OneElementPerSlot ==
  Planned =>
    \A q \in 1..Len(plan) :
      GroupDone(q) => Len(bufs[q][1].e) = Len(plan[q].items)

\* C7 as amended: a collect-group step splices the slice held in each
\* provider slot, so the aggregated sequence has as many elements as the
\* slices in the provider slots have together.
C7_SpliceEverySlot ==
  Planned =>
    \A q \in 1..Len(plan) :
      GroupDone(q) => Len(bufs[q][1].e) = SumLen(plan[q].items, 1)

\* a collect-group step over two slots has aggregated three elements
C7_Witness ==
  /\ Planned
  /\ \E q \in 1..Len(plan) :
       /\ GroupDone(q)
       /\ Len(plan[q].items) = 2
       /\ Len(bufs[q][1].e) = 3

\* the collect-param step of user step q
ParamsOf(q) == plan[plan[q].params]

\* C8: every node that consumes a decorated key with decorate=false is wired
\* to the output slot of the last-inserted decorator of the key.
C8_LastDecorator ==
  Planned =>
    \A q \in UserSteps :
      LET n == NodeOf(plan[q].value.uid)
      IN \A i \in 1..Len(n.input) :
           LET ds == Lookup(g.decorate, extractGraphKey(n.input[i]))
           IN (~n.input[i].Decorate /\ ds # <<>>) =>
                /\ Cardinality(StepsOf(ds[Len(ds)].id)) = 1
                /\ ParamsOf(q).items[i]
                     = MkCollect(StepOf(ds[Len(ds)].id), ds[Len(ds)].index)

\* two nodes consume, undecorated, a key that has two decorators
C8_Witness ==
  /\ Planned
  /\ Len(Lookup(g.decorate, extractGraphKey(sA))) >= 2
  /\ \E q, r \in UserSteps :
       /\ q # r
       /\ sA \in Range(NodeOf(plan[q].value.uid).input)
       /\ sA \in Range(NodeOf(plan[r].value.uid).input)

\* the collect-group step of a group key
GroupStepOf(key) ==
  CHOOSE q \in 1..Len(plan) :
    /\ plan[q].kind = "collectGroup"
    /\ LET slots == Lookup(g.provide, key)
       IN /\ Len(plan[q].items) = Len(slots)
          /\ \A i \in 1..Len(slots) :
               /\ plan[q].items[i].index = slots[i].index
               /\ plan[plan[q].items[i].result].value.uid = slots[i].id

\* where the undecorated value of key lives
BaseOf(key) ==
  IF key.group THEN MkCollect(GroupStepOf(key), 0)
  ELSE MkCollect(StepOf(g.provide[key][1].id), g.provide[key][1].index)

\* C9: the decorators D1..Dn of a key form a chain in insertion order: the
\* decorated input of D1 is wired to the undecorated value, that of Di to
\* the output slot of D(i-1), and their actions are planned in that order.
C9_DecoratorChain ==
  Planned =>
    \A key \in DOMAIN g.decorate :
      LET ds == g.decorate[key]
      IN \A i \in 1..Len(ds) :
           StepsOf(ds[i].id) # {} =>
             LET q == StepOf(ds[i].id)
                 n == g.nodes[ds[i].id + 1]
             IN /\ \A j \in 1..Len(n.input) :
                     (extractGraphKey(n.input[j]) = key
                        /\ n.input[j].Decorate) =>
                       IF i = 1 THEN ParamsOf(q).items[j] = BaseOf(key)
                       ELSE /\ StepsOf(ds[i - 1].id) # {}
                            /\ ParamsOf(q).items[j]
                                 = MkCollect(StepOf(ds[i - 1].id),
                                             ds[i - 1].index)
                /\ \A h \in 1..(i - 1) :
                     StepsOf(ds[h].id) # {} => StepOf(ds[h].id) < q

\* the ids of the nodes that a node with the input specs input reaches in
\* one step: the single provider of a singleton key, every provider of a
\* group key, every decorator of a key
Needs(input) ==
  UNION {
    LET key == extractGraphKey(sp)
        pr == Lookup(g.provide, key)
        de == Lookup(g.decorate, key)
    IN (IF key.group \/ Len(pr) = 1 THEN {pr[i].id : i \in 1..Len(pr)}
        ELSE {})
       \cup {de[i].id : i \in 1..Len(de)}
    : sp \in Range(input) }

RECURSIVE ReachFrom(_)
ReachFrom(S) ==
  LET T == S \cup UNION {Needs(g.nodes[id + 1].input) : id \in S}
  IN IF T = S THEN S ELSE ReachFrom(T)

\* the ids of the nodes reached from the consumer roots
Reached ==
  ReachFrom(UNION {Needs(consumers[i].input) : i \in 1..Len(consumers)})

\* C10: only consumer roots and nodes reached from a consumer root are
\* planned, and so executed.
C10_OnlyReached ==
  Planned =>
    /\ \A q \in UserSteps :
         plan[q].value.uid >= 0 => plan[q].value.uid \in Reached
    /\ \A k \in 1..Len(events) :
         events[k].ev = "exec" => events[k].step \in 1..Len(plan)

\* a run has ended that executed a provider and left another one out
C10_Witness ==
  /\ phase = "done"
  /\ runErr = RNil
  /\ \E id \in 0..(Len(g.nodes) - 1) :
       id \notin Reached /\ StepsOf(id) = {}
  /\ \E id \in 0..(Len(g.nodes) - 1) :
       StepsOf(id) # {} /\ ExecsOf(StepOf(id)) # {}

\* the calls of toposortGenerateSingle made by the planning of this Run, in
\* order
Asked == toposort(g, consumers).tp.asked

\* the singleton keys the node of user step q consumes
SingletonInputs(q) ==
  {extractGraphKey(sp) : sp \in
     {x \in Range(NodeOf(plan[q].value.uid).input) : ~x.Group}}

\* C11: when planning resolves a singleton key whose provide bucket is empty
\* it stops there, planning fails with the missing-dependency error of that
\* key, and Run returns it; so no plan holds a node with such an input.
C11_MissingFails ==
  /\ phase \in {"planfail", "crash"} =>
       \A i \in 1..Len(Asked) :
         Lookup(g.provide, Asked[i].key) = <<>> =>
           /\ i = Len(Asked)
           /\ phase = "planfail"
           /\ planErr = ErrMissing(Asked[i].key)
           /\ runErr = RNil /\ frames = <<>>
  /\ Planned =>
       \A q \in UserSteps :
         \A key \in SingletonInputs(q) : Lookup(g.provide, key) # <<>>

\* planning failed on a missing input of a provider that a consumer root
\* reached
C11_Witness ==
  /\ phase = "planfail"
  /\ planErr.kind = "missing"
  /\ Len(Asked) >= 2
  /\ \A i \in 1..Len(consumers) :
       planErr.key \notin
         {extractGraphKey(sp) : sp \in Range(consumers[i].input)}

\* the output slots of the inserted nodes whose spec has key key and
\* decorate flag dec, in insertion order
RECURSIVE SlotsFrom(_, _, _, _)
SlotsFrom(key, dec, id, j) ==
  IF id >= Len(g.nodes) THEN <<>>
  ELSE IF j > Len(g.nodes[id + 1].output) THEN SlotsFrom(key, dec, id + 1, 1)
  ELSE (IF /\ extractGraphKey(g.nodes[id + 1].output[j]) = key
           /\ g.nodes[id + 1].output[j].Decorate = dec
        THEN <<[id |-> id, index |-> j - 1]>> ELSE <<>>)
       \o SlotsFrom(key, dec, id, j + 1)

OutputKeys ==
  {extractGraphKey(sp) : sp \in UNION {Range(n.output) : n \in Range(g.nodes)}}

\* the collect-group steps that aggregate exactly the provider slots of key
GroupSteps(key) ==
  {q \in 1..Len(plan) :
     /\ plan[q].kind = "collectGroup"
     /\ LET slots == Lookup(g.provide, key)
        IN /\ Len(plan[q].items) = Len(slots)
           /\ \A i \in 1..Len(slots) :
                /\ plan[q].items[i].index = slots[i].index
                /\ plan[q].items[i].result >= 1
                /\ plan[plan[q].items[i].result].value.uid = slots[i].id}

\* C12: every insertion is accepted and every non-decorating output is
\* registered in its provide bucket, also a second provider of a key;
\* planning fails with ambiguous dependency exactly when it resolves a
\* singleton key that has two or more providers; a group key with several
\* providers is planned with every provider contributing.
C12_AmbiguousOnlyWhenConsumed ==
  /\ \A key \in OutputKeys \cup DOMAIN g.provide :
       Lookup(g.provide, key) = SlotsFrom(key, FALSE, 0, 1)
  /\ phase \in {"planfail", "crash"} =>
       /\ \A i \in 1..Len(Asked) :
            Len(Lookup(g.provide, Asked[i].key)) >= 2 =>
              /\ i = Len(Asked)
              /\ phase = "planfail"
              /\ planErr = ErrAmbiguous(Asked[i].key)
       /\ planErr.kind = "ambiguous" =>
            /\ Asked # <<>>
            /\ planErr.key = Asked[Len(Asked)].key
            /\ Len(Lookup(g.provide, planErr.key)) >= 2
  /\ Planned =>
       \A q \in UserSteps :
         /\ \A key \in SingletonInputs(q) : Len(Lookup(g.provide, key)) < 2
         /\ \A sp \in Range(NodeOf(plan[q].value.uid).input) :
              sp.Group => GroupSteps(extractGraphKey(sp)) # {}

\* planning failed on a key with two providers that a provider consumes,
\* which a consumer root reached
C12_Witness ==
  /\ phase = "planfail"
  /\ planErr.kind = "ambiguous"
  /\ Len(Asked) >= 2
  /\ \A i \in 1..Len(consumers) :
       planErr.key \notin
         {extractGraphKey(sp) : sp \in Range(consumers[i].input)}

\* the ids of the providers of the singleton keys among the specs input
SingletonDeps(input) ==
  UNION {{sl.id : sl \in Range(Lookup(g.provide, extractGraphKey(sp)))} :
           sp \in {x \in Range(input) : ~x.Group}}

RECURSIVE DepClosure(_)
DepClosure(S) ==
  LET T == S \cup UNION {SingletonDeps(g.nodes[id + 1].input) : id \in S}
  IN IF T = S THEN S ELSE DepClosure(T)

\* node id lies on a directed cycle of singleton dependencies
OnCycle(id) == id \in DepClosure(SingletonDeps(g.nodes[id + 1].input))

\* the nodes the consumer roots reach through singleton dependencies
RootClosure ==
  DepClosure(UNION {SingletonDeps(consumers[i].input) :
                      i \in 1..Len(consumers)})

CycleReached == \E id \in RootClosure : OnCycle(id)

\* every port that the consumer roots reach is an undecorated singleton
\* with exactly one provider
PlainReach ==
  \A input \in {consumers[i].input : i \in 1..Len(consumers)}
                 \cup {g.nodes[id + 1].input : id \in RootClosure} :
    \A sp \in Range(input) :
      /\ ~sp.Group /\ ~sp.Decorate
      /\ Len(Lookup(g.provide, extractGraphKey(sp))) = 1
      /\ Lookup(g.decorate, extractGraphKey(sp)) = <<>>

\* C13 as claimed: whenever the graph holds a directed cycle of singleton
\* dependencies, planning fails with a cyclic-dependency error.
C13_EveryCycleFails ==
  (phase # "options" /\ \E id \in 0..(Len(g.nodes) - 1) : OnCycle(id)) =>
    (phase = "planfail" /\ planErr.kind = "cyclic")

\* C13 as amended: planning never succeeds when a consumer root reaches a
\* cycle of singleton dependencies; it fails with cyclic dependency when it
\* resolves a singleton key whose one provider is still being planned, which
\* is what happens when every reached port is an undecorated singleton with
\* one provider; a cyclic-dependency error always names a key on a cycle.
C13_ReachedCycleFails ==
  /\ Planned => ~CycleReached
  /\ (phase # "options" /\ PlainReach /\ CycleReached) =>
       (phase = "planfail" /\ planErr.kind = "cyclic")
  /\ phase \in {"planfail", "crash"} =>
       /\ \A i \in 1..Len(Asked) :
            LET slots == Lookup(g.provide, Asked[i].key)
            IN (Len(slots) = 1 /\ slots[1].id \in Asked[i].pending) =>
                 /\ i = Len(Asked)
                 /\ phase = "planfail"
                 /\ planErr = ErrCyclic(
                      graphNodeString(g.nodes[slots[1].id + 1], slots[1].id),
                      Asked[i].key)
       /\ planErr.kind = "cyclic" =>
            /\ Len(Lookup(g.provide, planErr.key)) = 1
            /\ OnCycle(g.provide[planErr.key][1].id)

\* P1(B)->A, P2(A)->B, consume A: planning failed with cyclic dependency
C13_Witness ==
  /\ phase = "planfail"
  /\ planErr.kind = "cyclic"
  /\ Len(g.nodes) = 2
  /\ g.nodes[1].input = <<sB>> /\ g.nodes[1].output = <<sA>>
  /\ g.nodes[2].input = <<sA>> /\ g.nodes[2].output = <<sB>>
  /\ Len(consumers) = 1 /\ consumers[1].input = <<sA>>

\* the keys that the nodes of the plan consume
ConsumedKeys ==
  {extractGraphKey(sp) : sp \in
     UNION {Range(NodeOf(plan[q].value.uid).input) : q \in UserSteps}}

\* C14: no plan holds a node that is scheduled for a non-decorating output
\* of its own while it has a decorating output for a key, singleton or
\* group, that no non-decorating node provides: planning returns an error.
C14_DecoratorNeedsBase ==
  Planned =>
    \A q \in UserSteps :
      plan[q].value.uid >= 0 =>
        LET n == NodeOf(plan[q].value.uid)
        IN \A j, h \in 1..Len(n.output) :
             (/\ n.output[j].Decorate
              /\ ~n.output[h].Decorate
              /\ extractGraphKey(n.output[h]) \in ConsumedKeys) =>
               Lookup(g.provide, extractGraphKey(n.output[j])) # <<>>

\* positions in events of the user actions that returned a failure
FailedExecs ==
  {k \in 1..Len(events) : events[k].ev = "exec" /\ ~events[k].ok}

\* C15: once a user action has returned a failure no further step of the
\* plan is executed and Run returns a failure, also when the failing step
\* ran inside the continuation of a stack, whatever the stack's f returns.
C15_StopOnFailure ==
  Planned =>
    /\ \A k \in FailedExecs :
         \A j \in (k + 1)..Len(events) : events[j].ev # "exec"
    /\ (phase = "done" /\ FailedExecs # {}) => runErr # RNil

\* C16: when planning fails with a missing, ambiguous or cyclic dependency,
\* Run returns the planning error and no step is executed: no host action
\* is invoked, neither of the nodes scheduled before the failure was found.
C16_NoActionAfterPlanError ==
  /\ planErr # Nil =>
       /\ phase \in {"planfail", "crash"}
       /\ events = <<>> /\ received = EmptyMap
       /\ plan = <<>> /\ pending = <<>> /\ frames = <<>>
       /\ runErr = RNil
  /\ phase = "planfail" =>
       planErr.kind \in {"missing", "ambiguous", "cyclic"}

\* planning failed after it had scheduled the steps of a provider
C16_Witness ==
  /\ phase = "planfail"
  /\ \E i \in 1..Len(toposort(g, consumers).tp.result) :
       /\ toposort(g, consumers).tp.result[i].kind = "user"
       /\ toposort(g, consumers).tp.result[i].value.uid >= 0

\* the display label of the node of user step q: the string of its
\* formatter, and #<id> for a graph node without formatter
LabelOf(q) ==
  LET uid == plan[q].value.uid
  IN IF uid >= 0 THEN graphNodeString(NodeOf(uid), uid)
     ELSE NodeOf(uid).format

\* the user step whose action returned the failure that Run returned
LastFailedStep ==
  events[CHOOSE k \in 1..Len(events) :
           /\ ~events[k].ok /\ events[k].ev \in {"exec", "exit"}
           /\ \A j \in (k + 1)..Len(events) :
                events[j].ok \/ events[j].ev \notin {"exec", "exit"}].step

\* C17: the error Run returns for a failed user action carries the display
\* label of the node whose action returned the failure: the string of its
\* formatter, and #<id> when the node has no formatter.
C17_ErrorLabel ==
  (phase = "done" /\ runErr # RNil) =>
    /\ runErr.kind = "execute"
    /\ runErr.chain[1] = LabelOf(LastFailedStep)

\* C18: a missing, ambiguous or cyclic dependency found while planning is
\* returned wrapped as a dependency-chain error, one wrapper per node on
\* the path from the consumer root to the failing port.
C18_DependencyChain ==
  phase = "planfail" => planErr.kind = "dependency"

\* Determinism of planning is no formula of this module.  toposort is an
\* operator, so its value is a function of (gr, invokes) whatever its
\* definition is, and Plan is the only action that sets plan and planErr.
\* What could make two plannings of the code differ is absent from
\* part_000:196-429 and is therefore absent from the operators above: the
\* maps g.provide, g.decorate and tp.* are read by key only and never ranged
\* over, every loop ranges over a slice, and there is no goroutine, clock or
\* random source.

\* the number of steps that rs.run() has taken from the queue
Taken == Len(plan) - Len(pending)

\* C20: the steps executed so far in one Run, those executed inside stack
\* continuations included, are the first steps of the plan in plan order,
\* and the queue holds the rest of the plan in plan order; only a step that
\* panicked is between the two, taken from the queue and not completed.
C20_ExecutedIsPlanPrefix ==
  Planned =>
    /\ Len(Executed) <= Len(plan)
    /\ \A k \in 1..Len(Executed) : Executed[k] = k
    /\ Taken \in 0..Len(plan)
    /\ pending = [i \in 1..(Len(plan) - Taken) |-> Taken + i]
    /\ phase # "panic" => Taken = Len(Executed)
    /\ phase = "panic" => Taken \in {Len(Executed), Len(Executed) + 1}

\* a run has ended in which a step failed inside a continuation and the
\* steps planned after it were executed all the same, a later stack's among
\* them
C20_Witness ==
  /\ phase = "done"
  /\ nfails = 1
  /\ Cardinality(StackSteps) = 2
  /\ Len(Executed) = Len(plan)
  /\ \E k \in FailedExecs : events[k].step < Len(plan) - 2

IsPrefix(s, t) == Len(s) <= Len(t) /\ SubSeq(t, 1, Len(s)) = s

\* the places of the multimap m that hold slot
Places(m, slot) ==
  UNION {{<<key, i>> : i \in {x \in 1..Len(m[key]) : m[key][x] = slot}} :
           key \in DOMAIN m}

\* the graph after any number of inserts
GraphWellFormed ==
  /\ \A id \in 0..(Len(g.nodes) - 1) :
       /\ g.nodes[id + 1].value.uid = id
       /\ \A j \in 1..Len(g.nodes[id + 1].output) :
            LET sp == g.nodes[id + 1].output[j]
                slot == [id |-> id, index |-> j - 1]
            IN IF sp.Decorate
               THEN /\ Cardinality(Places(g.decorate, slot)) = 1
                    /\ Places(g.provide, slot) = {}
                    /\ \E i \in 1..Len(Lookup(g.decorate, extractGraphKey(sp))) :
                         g.decorate[extractGraphKey(sp)][i] = slot
               ELSE /\ Cardinality(Places(g.provide, slot)) = 1
                    /\ Places(g.decorate, slot) = {}
                    /\ \E i \in 1..Len(Lookup(g.provide, extractGraphKey(sp))) :
                         g.provide[extractGraphKey(sp)][i] = slot
  /\ \A m \in {g.provide, g.decorate} :
       \A key \in DOMAIN m :
         /\ m[key] # <<>>
         /\ \A i \in 1..Len(m[key]) :
              /\ m[key][i].id \in 0..(Len(g.nodes) - 1)
              /\ m[key][i].index \in
                   0..(Len(g.nodes[m[key][i].id + 1].output) - 1)
         /\ \A i, j \in 1..Len(m[key]) :
              i < j => \/ m[key][i].id < m[key][j].id
                       \/ /\ m[key][i].id = m[key][j].id
                          /\ m[key][i].index < m[key][j].index

\* an insert appends one node and appends to buckets
InsertExtends ==
  g' # g =>
    /\ Len(g'.nodes) = Len(g.nodes) + 1
    /\ IsPrefix(g.nodes, g'.nodes)
    /\ \A key \in DOMAIN g.provide :
         key \in DOMAIN g'.provide /\ IsPrefix(g.provide[key], g'.provide[key])
    /\ \A key \in DOMAIN g.decorate :
         key \in DOMAIN g'.decorate
           /\ IsPrefix(g.decorate[key], g'.decorate[key])

\* C21: after any sequence of inserts node ids are 0..n-1 in insertion
\* order, every output slot is listed exactly once, in the provide bucket of
\* its key when decorate=false and in the decorate bucket of its key when
\* decorate=true, buckets list slots in insertion order, and an insert
\* leaves the entries of earlier nodes unchanged.
C21_GraphBuckets == [](GraphWellFormed) /\ [][InsertExtends]_vars

\* three nodes inserted, one with two outputs, and a key that has slots in
\* its provide bucket and in its decorate bucket
C21_Witness ==
  /\ Len(g.nodes) = 3
  /\ \E id \in 0..2 : Len(g.nodes[id + 1].output) = 2
  /\ \E key \in DOMAIN g.provide :
       key \in DOMAIN g.decorate /\ Len(g.decorate[key]) = 2

\* the options of this Run as leaves: those that inserted the nodes, then
\* those that appended the consumer roots
Leaves ==
  [i \in 1..(Len(g.nodes) + Len(consumers)) |->
     LET n == IF i <= Len(g.nodes) THEN g.nodes[i]
              ELSE consumers[i - Len(g.nodes)]
     IN Leaf(Opt(n.value.op, n.input, n.output, n.format, n.value.glen))]

\* ways to pass the options L to Run with some of them aggregated by
\* Module: one Module (maybe empty) around a stretch of L, and a Module
\* around the head of L nested in a Module around a longer head
Nestings(L) ==
  {SubSeq(L, 1, p[1] - 1) \o <<Module(SubSeq(L, p[1], p[2]))>>
     \o SubSeq(L, p[2] + 1, Len(L)) :
     p \in {x \in (1..(Len(L) + 1)) \X (0..Len(L)) : x[2] >= x[1] - 1}}
  \cup
  {<<Module(<<Module(SubSeq(L, 1, p[1]))>> \o SubSeq(L, p[1] + 1, p[2]))>>
     \o SubSeq(L, p[2] + 1, Len(L)) :
     p \in {x \in (0..Len(L)) \X (0..Len(L)) : x[2] >= x[1]}}

\* C22: Module carries no runtime semantics: Run over options of which some
\* are aggregated by Module, nested or not, builds the graph (node ids and
\* buckets) and the consumer-root list that Run builds over the flat list.
C22_ModuleIsFlat ==
  phase = "options" =>
    /\ RunOptions(Leaves) = [g |-> g, consumers |-> consumers]
    /\ \A opts \in Nestings(Leaves) :
         RunOptions(opts) = [g |-> g, consumers |-> consumers]

\* three nodes and two consumer roots have been declared
C22_Witness ==
  /\ phase = "options"
  /\ Len(g.nodes) = 3
  /\ Len(consumers) = 2
  /\ g.nodes[1] # g.nodes[2]

\* ------------------------------------------------------------------- C23
\* Every input spec with Decorate of a node or consumer root belongs to a
\* node that also has an output spec with Decorate on the same key.
DecorateInputs(node) ==
  {i \in 1..Len(node.input) : node.input[i].Decorate}

WellFormedDecorate ==
  \A node \in Range(g.nodes) \cup Range(consumers) :
    \A i \in DecorateInputs(node) :
      \E j \in 1..Len(node.output) :
        /\ node.output[j].Decorate
        /\ extractGraphKey(node.output[j]) = extractGraphKey(node.input[i])

\* C23: when every decorating input belongs to a decorator of the same key,
\* planning never reaches panic("invalid uninitialized decorate"): each
\* final collect of a decorating input finds tp.decorating[key].
C23_NoUninitializedDecorate ==
  (phase # "options" /\ WellFormedDecorate) => planErr.kind # "panic"

\* Two decorators with a decorating input each were final-collected in one
\* successful planning.
C23_Witness ==
  /\ phase = "run"
  /\ WellFormedDecorate
  /\ \E p, q \in UserSteps :
       /\ p < q
       /\ DecorateInputs(NodeOf(plan[p].value.uid)) # {}
       /\ DecorateInputs(NodeOf(plan[q].value.uid)) # {}

\* ------------------------------------------------------------------- C24
\* C24: planning terminates on every finite graph and consumer list with a
\* plan or an error; in particular it never recurses without bound through
\* a node that is still being scheduled, be the cycle through a group port
\* or through the decorator chain.
C24_PlanningTerminates ==
  phase # "options" => planErr.kind # "overflow"

\* ------------------------------------------------------------------- C25
\* the stack steps whose continuation is running when events[k] happens,
\* outermost first
RECURSIVE OpenAt(_)
OpenAt(k) ==
  IF k <= 1 THEN <<>>
  ELSE LET o == OpenAt(k - 1)
           e == events[k - 1]
       IN IF e.ev = "call" THEN Append(o, e.step)
          ELSE IF e.ev = "back" THEN SubSeq(o, 1, Len(o) - 1)
          ELSE o

\* positions in events where a step fails: a user action or a stack's f
\* returns a failure
Failures ==
  {k \in 1..Len(events) : events[k].ev \in {"exec", "exit"} /\ ~events[k].ok}

ExitAt(p) ==
  CHOOSE k \in 1..Len(events) : events[k].ev = "exit" /\ events[k].step = p

\* C25: a failure of a step that runs inside the continuation of a stack is
\* returned by the continuation to that stack's f at once, and when Run has
\* returned every stack whose continuation was running at the failure has
\* returned too, the innermost first.
C25_FailureUnwindsThroughStacks ==
  /\ \A k \in Failures :
       OpenAt(k) # <<>> =>
         /\ k < Len(events)
         /\ events[k + 1] = Ev("back", OpenAt(k)[Len(OpenAt(k))], FALSE)
  /\ phase = "done" =>
       \A k \in Failures :
         LET o == OpenAt(k)
         IN /\ \A i \in 1..Len(o) :
                 \E x \in (k + 1)..Len(events) :
                   events[x].ev = "exit" /\ events[x].step = o[i]
            /\ \A i, j \in 1..Len(o) : i < j => ExitAt(o[j]) < ExitAt(o[i])

\* Run has returned after a step failed inside two nested continuations.
C25_Witness ==
  /\ phase = "done"
  /\ \E k \in Failures : events[k].ev = "exec" /\ Len(OpenAt(k)) = 2

\* ------------------------------------------------------------------- C26
\* no user action and no stack function has returned a failure
NoFailure == \A k \in 1..Len(events) : events[k].ok

\* C26: when planning succeeded and no action returned a failure, Run
\* returns nil with every step of the plan executed exactly once and the
\* queue empty, however often each stack's f invoked its continuation.
C26_AllStepsOnce ==
  (phase = "done" /\ NoFailure) =>
    /\ \A p \in 1..Len(plan) : Cardinality(ExecsOf(p)) = 1
    /\ pending = <<>>
    /\ runErr = RNil

\* Run has returned without a failure; one stack never invoked its
\* continuation and steps of the plan come after it, another invoked its
\* continuation twice.
C26_Witness ==
  /\ phase = "done"
  /\ NoFailure
  /\ \E p, s \in StackSteps :
       /\ CallsOf(p) = {}
       /\ p < Len(plan)
       /\ Cardinality(CallsOf(s)) = 2

\* ------------------------------------------------------------------- C27
\* the collect c names a buffer slot that holds a value of key key: an
\* output slot of that key of a planned node, or the aggregation buffer of
\* the collect-group step of that key
HoldsKey(c, key) ==
  /\ c.result \in 1..Len(plan)
  /\ \/ /\ plan[c.result].kind = "user"
        /\ plan[c.result].value.uid >= 0
        /\ LET n == NodeOf(plan[c.result].value.uid)
           IN /\ c.index + 1 \in 1..Len(n.output)
              /\ extractGraphKey(n.output[c.index + 1]) = key
     \/ /\ plan[c.result].kind = "collectGroup"
        /\ key.group
        /\ c.index = 0
        /\ c.result \in GroupSteps(key)

\* C27: each user step comes right after the collect-param step that fills
\* its input buffer; that step has one source per input spec of the node,
\* in the order of the input specs, each naming a slot of the key of its
\* input spec, and the action receives the values of those slots in that
\* order.
C27_InputsInSpecOrder ==
  Planned =>
    \A q \in UserSteps :
      LET n == NodeOf(plan[q].value.uid)
      IN /\ q > 1
         /\ plan[q - 1].kind = "collectParam"
         /\ plan[q].params = q - 1
         /\ plan[q - 1].result = q - 1
         /\ Len(plan[q - 1].items) = Len(n.input)
         /\ \A i \in 1..Len(n.input) :
              HoldsKey(plan[q - 1].items[i], extractGraphKey(n.input[i]))
         /\ q \in DOMAIN received =>
              received[q] =
                [i \in 1..Len(n.input) |-> collect(plan[q - 1].items[i])]

\* a node with two inputs of different keys has been called
C27_Witness ==
  /\ Planned
  /\ \E q \in UserSteps :
       /\ q \in DOMAIN received
       /\ Len(received[q]) = 2
       /\ received[q][1] # received[q][2]
       /\ received[q][1] # Zero

\* ------------------------------------------------------------------- C28
\* tp.grouped when planning has ended: the aggregation buffer of each group
\* key that was scheduled
Grouped == toposort(g, consumers).tp.grouped

CollectGroupSteps == {q \in 1..Len(plan) : plan[q].kind = "collectGroup"}

\* the inputs (user step, input position) of the planned nodes that consume
\* key
ConsumersOf(key) ==
  UNION {{<<q, i>> : i \in {j \in 1..Len(NodeOf(plan[q].value.uid).input) :
                      extractGraphKey(NodeOf(plan[q].value.uid).input[j]) = key}}
         : q \in UserSteps}

GroupKeysConsumed ==
  {key \in ConsumedKeys : key.group}

\* one collect-group step per group key, placed after the user steps of all
\* providers of the key and before the collect-param step of every consumer
OneStepPerGroupKey ==
  /\ DOMAIN Grouped = GroupKeysConsumed
  /\ Cardinality(CollectGroupSteps) = Cardinality(GroupKeysConsumed)
  /\ \A key \in GroupKeysConsumed :
       /\ Grouped[key] \in CollectGroupSteps
       /\ Grouped[key] \in GroupSteps(key)
       /\ \A k2 \in GroupKeysConsumed : Grouped[k2] = Grouped[key] => k2 = key
       /\ \A i \in 1..Len(Lookup(g.provide, key)) :
            \A p \in StepsOf(g.provide[key][i].id) : p < Grouped[key]
       /\ \A c \in ConsumersOf(key) : Grouped[key] < c[1] - 1

\* C28 as claimed: one collect-group step per group key, and every consumer
\* of the key is wired to its aggregation buffer.
C28_AllConsumersOnAggregate ==
  Planned =>
    /\ OneStepPerGroupKey
    /\ \A key \in GroupKeysConsumed :
         \A c \in ConsumersOf(key) :
           ParamsOf(c[1]).items[c[2]] = MkCollect(Grouped[key], 0)

\* C28 as amended: one collect-group step per group key; every consumer of
\* a key without decorators, and the decorating input of the first
\* decorator of a decorated key, is wired to the aggregation buffer; any
\* other consumer of a decorated key is wired to the aggregation buffer or
\* to a decorating output slot of that key.
C28_OneAggregationPerKey ==
  Planned =>
    /\ OneStepPerGroupKey
    /\ \A key \in GroupKeysConsumed :
         LET ds == Lookup(g.decorate, key)
             agg == MkCollect(Grouped[key], 0)
         IN \A c \in ConsumersOf(key) :
              LET uid == plan[c[1]].value.uid
                  item == ParamsOf(c[1]).items[c[2]]
              IN /\ ds = <<>> => item = agg
                 /\ (/\ ds # <<>>
                     /\ uid = ds[1].id
                     /\ NodeOf(uid).input[c[2]].Decorate) => item = agg
                 /\ ds # <<>> =>
                      \/ item = agg
                      \/ \E j \in 1..Len(ds) :
                           /\ StepsOf(ds[j].id) # {}
                           /\ item = MkCollect(StepOf(ds[j].id), ds[j].index)

\* two planned nodes consume one group key that has a provider and no
\* decorator
C28_Witness ==
  /\ Planned
  /\ \E key \in GroupKeysConsumed :
       /\ Lookup(g.decorate, key) = <<>>
       /\ Lookup(g.provide, key) # <<>>
       /\ \E c1, c2 \in ConsumersOf(key) : c1[1] # c2[1]

\* ------------------------------------------------------------------- C29
\* the collect c of a step at position q of the plan pl names a buffer that
\* an earlier step of pl allocates, and an index within that buffer
SourceAllocated(pl, q, c) ==
  /\ c # EmptyCollect
  /\ c.result \in 1..(q - 1)
  /\ pl[c.result].kind \in {"user", "collectGroup"}
  /\ c.index \in 0..(Len(InitBuf(pl[c.result])) - 1)

\* C29: whenever planning returns success, every source of every
\* collect-param and collect-group step names an allocated buffer and an
\* index within it; no source is the empty collect descriptor, and no
\* collect step finds a nil buffer when it is executed.
C29_SourcesAllocated ==
  /\ LET r == toposort(g, consumers)
     IN r.err = Nil =>
          \A q \in 1..Len(r.val) :
            \A i \in 1..Len(r.val[q].items) :
              SourceAllocated(r.val, q, r.val[q].items[i])
  /\ Planned =>
       \A q \in 1..Len(plan) :
         \A i \in 1..Len(plan[q].items) :
           /\ plan[q].items[i].result \in DOMAIN bufs
           /\ plan[q].items[i].index + 1
                \in DOMAIN bufs[plan[q].items[i].result]

\* a collect-param step has read the second slot of a provider's buffer
\* and a collect-group step the first
C29_Witness ==
  /\ Planned
  /\ \E q, r \in Range(Executed) :
       /\ plan[q].kind = "collectParam"
       /\ \E i \in 1..Len(plan[q].items) : plan[q].items[i].index = 1
       /\ plan[r].kind = "collectGroup"
       /\ plan[r].items # <<>>

\* ------------------------------------------------------------------- C30
\* every input of every consumer root is a group key that has neither a
\* provider nor a decorator
OnlyUnprovidedGroups ==
  /\ consumers # <<>>
  /\ \A c \in Range(consumers) :
       /\ c.input # <<>>
       /\ \A sp \in Range(c.input) :
            /\ sp.Group
            /\ Lookup(g.provide, extractGraphKey(sp)) = <<>>
            /\ Lookup(g.decorate, extractGraphKey(sp)) = <<>>

\* C30: a group key without provider is no error.  Planning never fails
\* with missing dependency on a group key and succeeds when the consumer
\* roots ask for nothing else; the plan holds a collect-group step without
\* source for the key, its buffer is the empty slice when it has executed,
\* and a consumer of the key (undecorated) receives the empty slice.
C30_EmptyGroupIsNoError ==
  /\ planErr.kind = "missing" => ~planErr.key.group
  /\ (phase # "options" /\ OnlyUnprovidedGroups) => planErr = Nil
  /\ Planned =>
       \A key \in GroupKeysConsumed :
         Lookup(g.provide, key) = <<>> =>
           /\ key \in DOMAIN Grouped
           /\ plan[Grouped[key]].kind = "collectGroup"
           /\ plan[Grouped[key]].items = <<>>
           /\ ExecsOf(Grouped[key]) # {} => bufs[Grouped[key]] = <<Slice(<<>>)>>
           /\ Lookup(g.decorate, key) = <<>> =>
                \A c \in ConsumersOf(key) :
                  c[1] \in DOMAIN received =>
                    received[c[1]][c[2]] = Slice(<<>>)

\* a consumer of a group key that has no provider has been called
C30_Witness ==
  /\ Planned
  /\ OnlyUnprovidedGroups
  /\ \E key \in GroupKeysConsumed :
       \E c \in ConsumersOf(key) :
         /\ plan[c[1]].value.uid < 0
         /\ c[1] \in DOMAIN received
         /\ received[c[1]][c[2]] = Slice(<<>>)

\* ------------------------------------------------------------------- C31
\* the user steps of the consumer roots, in the order in which their
\* Invoke / Populate options were applied
RootSteps == [i \in 1..Len(consumers) |-> StepOf(0 - i)]

\* the steps of consumer roots executed so far, in order
RootsExecuted ==
  SelectSeq(Executed, LAMBDA p : plan[p].kind = "user" /\ plan[p].value.uid < 0)

\* every way to pass the options N and C to Run in one list that keeps the
\* order of N and the order of C
RECURSIVE Merges(_, _)
Merges(N, C) ==
  IF N = <<>> THEN {C}
  ELSE IF C = <<>> THEN {N}
  ELSE {<<Head(N)>> \o m : m \in Merges(Tail(N), C)}
         \cup {<<Head(C)>> \o m : m \in Merges(N, Tail(C))}

\* C31: the consumer roots are planned in the order in which their options
\* were applied, each exactly once, and executed in that order, each at
\* most once and all of them when Run returns without a failure; graph,
\* roots and plan are the same however the provider options and the consumer
\* options were interleaved, as planning starts after the last option.
C31_RootsInOptionOrder ==
  /\ \A m \in Merges(SubSeq(Leaves, 1, Len(g.nodes)),
                     SubSeq(Leaves, Len(g.nodes) + 1, Len(Leaves))) :
       LET st == RunOptions(m)
           r == toposort(st.g, st.consumers)
       IN /\ st = [g |-> g, consumers |-> consumers]
          /\ phase # "options" =>
               /\ r.err = planErr
               /\ planErr = Nil => r.val = plan
  /\ phase = "options" => plan = <<>> /\ events = <<>>
  /\ Planned =>
       /\ \A i \in 1..Len(consumers) :
            /\ Cardinality(StepsOf(0 - i)) = 1
            /\ plan[StepOf(0 - i)].value = consumers[i].value
       /\ \A i, j \in 1..Len(consumers) :
            i < j => RootSteps[i] < RootSteps[j]
       /\ IsPrefix(RootsExecuted, RootSteps)
       /\ (phase = "done" /\ NoFailure) => RootsExecuted = RootSteps

\* Run has returned after two different consumer roots ran, the second of
\* them fed by a node inserted before the node that feeds the first
C31_Witness ==
  /\ phase = "done"
  /\ Len(consumers) = 2
  /\ Len(RootsExecuted) = 2
  /\ consumers[1].input # consumers[2].input
  /\ \E a, b \in UserSteps :
       /\ plan[a].value.uid >= 0 /\ plan[b].value.uid >= 0
       /\ plan[a].value.uid > plan[b].value.uid
       /\ a < RootSteps[1]
       /\ RootSteps[1] < b

====
